---- MODULE Spec2Model ----
(***************************************************************************)
(* Model of pcluster's HitConverter (cli/pcluster/config/hit_converter.py) *)
(* working on a configuration Store (pcluster_config), and of the rollback *)
(* default of build_image (api/controllers/image_operations_controller.py).*)
(*                                                                         *)
(* Section objects live in a heap, obj, keyed by an object id; the Store   *)
(* indexes them by (key, label) in insertion order.  A parent reference is *)
(* an object id, so the removed SIT cluster section and the new HIT one,   *)
(* which share (key, label), are told apart.  Parameter values are strings *)
(* ("True", "None", "10", ...): the Python values printed.                 *)
(***************************************************************************)
EXTENDS Integers, Sequences, FiniteSets, TLC

VARIABLES
    sections,       \* Store: the (key,label) index, a sequence of [key, label, oid]
    obj,            \* heap: object id -> section object
    auto_refresh,   \* Store.auto_refresh
    parser,         \* Store.config_parser: [attached, names]
    stash,          \* HitConverter._cluster_nested_sections (object ids)
    pc,             \* position inside convert(); "idle" between calls
    saved,          \* convert()'s local auto_refresh
    loc,            \* convert()'s local section references: [sit, hit, queue, cr]
    idx,            \* position of the loop of _restore_original_sections
    calls,          \* convert() calls started so far
    outcome,        \* how the last finished convert() call ended
    warnings,       \* placement warnings logged so far
    refreshes,      \* Store.refresh() calls so far
    pre,            \* history: the Store as it was when the running/last call began
    image           \* the last build_image request served, with what it did

vars == <<sections, obj, auto_refresh, parser, stash, pc, saved, loc, idx, calls,
          outcome, warnings, refreshes, pre, image>>

-----------------------------------------------------------------------------
(* Bounds *)

MaxCalls == 2
MaxEbs == 1

-----------------------------------------------------------------------------
(* Values *)

NoneVal == "None"
Default == "DEFAULT"        \* a parameter still at its schema default: never written
True == "True"
False == "False"

Null == <<"null", "null", 0>>

PyBool(b) == IF b THEN True ELSE False

\* Python truthiness of a parameter value
Truthy(v) == v \notin {NoneVal, False, "0", ""}

-----------------------------------------------------------------------------
(* Registry / mappings (pcluster.config.mappings) *)

CLUSTER_SIT_NESTED_SECTIONS == <<"scaling", "ebs">>
GLOBAL_SECTIONS == <<"aws">>
ALWAYS_PRESENT_SECTIONS == <<"scaling">>

Range(s) == {s[i] : i \in 1..Len(s)}

SitKeys == {"scheduler", "key_name", "cluster_type", "enable_efa", "placement_group",
            "placement", "compute_instance_type", "max_queue_size", "spot_price",
            "initial_queue_size", "maintain_initial_size"}
CLUSTER_HIT == {"scheduler", "key_name", "enable_efa", "queue_settings"}
QUEUE == {"compute_type", "enable_efa", "placement_group", "compute_resource_settings"}
COMPUTE_RESOURCE == {"instance_type", "max_count", "spot_price", "min_count", "initial_count"}

-----------------------------------------------------------------------------
(* Section / Store primitives *)

\* A section object built from a schema definition: every parameter at its default
NewSection(key, label, schema, keys, parent) ==
    [key |-> key, label |-> label, schema |-> schema, parent |-> parent,
     params |-> [k \in keys |-> Default]]

Entry(key, label, oid) == [key |-> key, label |-> label, oid |-> oid]

Registered(secs, key, label) ==
    \E i \in 1..Len(secs) : secs[i].key = key /\ secs[i].label = label

\* Store.get_sections(key): the sections of one key, in insertion order
GetSections(secs, key) == SelectSeq(secs, LAMBDA e : e.key = key)

\* Store.get_section(key): the first section of the key, or Null
GetSection(secs, key) ==
    LET ss == GetSections(secs, key) IN IF Len(ss) = 0 THEN Null ELSE ss[1].oid

\* Store.add_section: a colliding (key,label) is silently replaced
AddSection(secs, key, label, oid) ==
    IF Registered(secs, key, label)
    THEN [i \in 1..Len(secs) |->
            IF secs[i].key = key /\ secs[i].label = label
            THEN Entry(key, label, oid) ELSE secs[i]]
    ELSE Append(secs, Entry(key, label, oid))

\* Store.remove_section(key, label)
RemoveSection(secs, key, label) ==
    SelectSeq(secs, LAMBDA e : ~(e.key = key /\ e.label = label))

\* Store.cluster_model: derived from the cluster section's schema
ClusterModel(secs, heap) ==
    LET c == GetSection(secs, "cluster") IN
    IF c # Null /\ heap[c].schema = "HIT" THEN "HIT" ELSE "SIT"

\* pcluster.utils.get_file_section_name
FileSectionName(key, label) == <<key, label>>

\* Section.get_param_value (a missing key is an error of the caller's step: see HasParams)
ParamValue(sec, k) == IF k \in DOMAIN sec.params THEN sec.params[k] ELSE "<missing>"

HasParams(sec, keys) == keys \subseteq DOMAIN sec.params

SetParam(heap, oid, k, v) == [heap EXCEPT ![oid].params[k] = v]

\* Extend the heap with a new object
Alloc(heap, oid, sec) == [o \in DOMAIN heap \cup {oid} |-> IF o = oid THEN sec ELSE heap[o]]

-----------------------------------------------------------------------------
(* Initial Stores: a legacy (SIT) configuration as loaded from a file *)

Schedulers == {"slurm", "sge", "torque"}
ClusterLabels == {"default", "mycluster"}
EbsLabels == <<"vol1", "vol2", "vol3">>

LegacyParams ==
    [scheduler : Schedulers, key_name : {"k1"}, cluster_type : {"ondemand", "spot"},
     enable_efa : {NoneVal, "compute", "master"}, placement_group : {NoneVal, "pg1"},
     placement : {NoneVal, "compute", "cluster"}, compute_instance_type : {"c5.xlarge"},
     max_queue_size : {"10"}, spot_price : {"0.5"}, initial_queue_size : {"0", "2"},
     maintain_initial_size : {True, False, NoneVal}]

\* The parameters a legacy cluster section may lack (none, for a section built
\* from its schema)
AbsentKeys == {{}, {"placement"}, {"maintain_initial_size"}}

Without(params, absent) == [k \in DOMAIN params \ absent |-> params[k]]

\* The labels of the sections of the always-present key, in the order they were loaded
ScalingOrders == {<<"default">>, <<"custom">>, <<"default", "custom">>, <<"custom", "default">>}

Oid0(key, label) == <<key, label, 0>>

InitEntries(clabel, scaling, nEbs) ==
    <<Entry("aws", "default", Oid0("aws", "default")),
      Entry("cluster", clabel, Oid0("cluster", clabel))>>
    \o [i \in 1..Len(scaling) |-> Entry("scaling", scaling[i], Oid0("scaling", scaling[i]))]
    \o [i \in 1..nEbs |-> Entry("ebs", EbsLabels[i], Oid0("ebs", EbsLabels[i]))]

InitObject(e, clabel, legacy) ==
    IF e.key = "cluster"
    THEN [key |-> "cluster", label |-> clabel, schema |-> "SIT", parent |-> Null,
          params |-> legacy]
    ELSE [key |-> e.key, label |-> e.label, schema |-> e.key,
          parent |-> IF e.key \in Range(CLUSTER_SIT_NESTED_SECTIONS)
                     THEN Oid0("cluster", clabel) ELSE Null,
          params |-> [settings |-> e.label]]

InitHeap(entries, clabel, legacy) ==
    [o \in {entries[i].oid : i \in 1..Len(entries)} |->
        InitObject(CHOOSE e \in Range(entries) : e.oid = o, clabel, legacy)]

Snapshot(secs, heap, ar, prs, st, w, r) ==
    [sections |-> secs, obj |-> heap, auto_refresh |-> ar, parser |-> prs, stash |-> st,
     warnings |-> w, refreshes |-> r]

NoLoc == [sit |-> Null, hit |-> Null, queue |-> Null, cr |-> Null]

NoImage == [served |-> FALSE]

InitConverter ==
    \E clabel \in ClusterLabels, legacy \in LegacyParams, scaling \in ScalingOrders,
       nEbs \in 0..MaxEbs, ar \in BOOLEAN, attached \in BOOLEAN, absent \in AbsentKeys :
        LET entries == InitEntries(clabel, scaling, nEbs) IN
        /\ sections = entries
        /\ obj = InitHeap(entries, clabel, Without(legacy, absent))
        /\ auto_refresh = ar
        /\ parser = [attached |-> attached,
                     names |-> IF attached
                               THEN {FileSectionName("cluster", clabel),
                                     FileSectionName("aws", "default")}
                               ELSE {}]
        /\ stash = <<>>
        /\ pc = "idle"
        /\ saved = FALSE
        /\ loc = NoLoc
        /\ idx = 0
        /\ calls = 0
        /\ outcome = "none"
        /\ warnings = 0
        /\ refreshes = 0
        /\ pre = Snapshot(sections, obj, auto_refresh, parser, stash, warnings, refreshes)

Init == InitConverter /\ image = NoImage

-----------------------------------------------------------------------------
(* HitConverter *)

\* The object id of a section created during the running call
New(key, label) == <<key, label, calls>>

\* variant: the guard of line 34 dropped
ConvertGuard_Always == TRUE

\* line 34: convert() runs only on a Store whose model is not HIT
ConvertGuard == ClusterModel(sections, obj) # "HIT"

\* variant: every scheduler but "sge" converted
NeedsConversion_NotSge(scheduler) == scheduler # "sge"

\* line 45: the conversion is performed only for the Slurm scheduler
NeedsConversion(scheduler) == scheduler = "slurm"

\* variant: new_value or old_param.value
CopyParamValue_Or(old_value, new_value) ==
    IF Truthy(new_value) THEN new_value ELSE old_value

\* _copy_param_value: the value written to the new parameter
CopyParamValue(old_value, new_value) ==
    IF new_value # NoneVal THEN new_value ELSE old_value

\* _store_original_sections: the sections of the nested and global keys, in
\* registry order and, within a key, in the Store's order
RECURSIVE StoreOriginalSections(_, _)
StoreOriginalSections(secs, types) ==
    IF Len(types) = 0 THEN <<>>
    ELSE LET ss == GetSections(secs, Head(types)) IN
         [i \in 1..Len(ss) |-> ss[i].oid] \o StoreOriginalSections(secs, Tail(types))

\* variant: auto_refresh written back on the way out (try/finally)
RaiseAfter_Restoring(heap) ==
    /\ pc' = "idle"
    /\ outcome' = "error"
    /\ obj' = heap
    /\ auto_refresh' = saved
    /\ UNCHANGED <<sections, parser, stash, saved, loc, idx, calls, warnings, refreshes,
                   pre, image>>

\* An exception leaves convert() with the heap as the failing step left it:
\* nothing is caught, nothing is undone, no later step runs
RaiseAfter(heap) ==
    /\ pc' = "idle"
    /\ outcome' = "error"
    /\ obj' = heap
    /\ auto_refresh' = auto_refresh
    /\ UNCHANGED <<sections, parser, stash, saved, loc, idx, calls, warnings, refreshes,
                   pre, image>>

Raise == RaiseAfter(obj)

\* variant: auto_refresh left as it is
SuspendedAutoRefresh_Kept == auto_refresh

\* line 40: self.pcluster_config.auto_refresh = False
SuspendedAutoRefresh == FALSE

\* The first of the looked-up keys the section lacks (Len + 1 when it has them all)
FirstMissing(sec, keys) ==
    LET missing == {i \in 1..Len(keys) : keys[i] \notin DOMAIN sec.params} IN
    IF missing = {} THEN Len(keys) + 1
    ELSE CHOOSE i \in missing : \A j \in missing : i <= j

\* The fields written before the n-th lookup
WrittenBefore(fields, targets, n) ==
    [k \in {targets[i] : i \in {j \in 1..Len(targets) : j < n}} |-> fields[k]]

\* lines 34-46: the guard, the stash, the suspension of auto_refresh, the scheduler test
ConvertEnter ==
    /\ pc = "idle"
    /\ outcome # "error"          \* an exception ended the caller's use of the Store
    /\ calls < MaxCalls
    /\ calls' = calls + 1
    /\ pre' = Snapshot(sections, obj, auto_refresh, parser, stash, warnings, refreshes)
    /\ UNCHANGED <<sections, obj, parser, idx, warnings, refreshes, image>>
    /\ IF ~ConvertGuard
       THEN /\ outcome' = "already_hit"
            /\ UNCHANGED <<auto_refresh, stash, saved, loc, pc>>
       ELSE LET sit == GetSection(sections, "cluster") IN
            /\ stash' = StoreOriginalSections(sections,
                                              CLUSTER_SIT_NESTED_SECTIONS \o GLOBAL_SECTIONS)
            /\ saved' = auto_refresh
            /\ auto_refresh' = SuspendedAutoRefresh
            /\ loc' = [NoLoc EXCEPT !.sit = sit]
            /\ IF sit = Null \/ ~HasParams(obj[sit], {"scheduler"})
               THEN pc' = "idle" /\ outcome' = "error"
               ELSE IF ~NeedsConversion(ParamValue(obj[sit], "scheduler"))
               THEN pc' = "idle" /\ outcome' = "not_required"
               ELSE pc' = "new_cluster" /\ outcome' = "running"

\* Section construction registers a default section of every always-present key
RECURSIVE AutoCreate(_, _, _, _)
AutoCreate(st, keys, parent, gen) ==
    IF Len(keys) = 0 THEN st
    ELSE LET k == Head(keys)
             o == <<k, "default", gen>>
         IN AutoCreate([sections |-> AddSection(st.sections, k, "default", o),
                        obj |-> Alloc(st.obj, o, NewSection(k, "default", k, {"settings"}, parent))],
                       Tail(keys), parent, gen)

\* variant: the new cluster section always labelled "default"
HitLabel_Default(sit) == "default"

\* line 55: the new cluster section takes the label of the legacy one
HitLabel(sit) == sit.label

\* lines 52-56: hit_cluster_section = ClusterCfnSection(CLUSTER_HIT, ..., sit.label)
NewClusterSection ==
    /\ pc = "new_cluster"
    /\ LET hit == New("cluster", HitLabel(obj[loc.sit]))
           st  == AutoCreate([sections |-> sections,
                              obj |-> Alloc(obj, hit, NewSection("cluster", HitLabel(obj[loc.sit]),
                                                                 "HIT", CLUSTER_HIT, Null))],
                             ALWAYS_PRESENT_SECTIONS, hit, calls)
       IN /\ sections' = st.sections
          /\ obj' = st.obj
          /\ loc' = [loc EXCEPT !.hit = hit]
    /\ pc' = "remove_sit"
    /\ UNCHANGED <<auto_refresh, parser, stash, saved, idx, calls, outcome, warnings,
                   refreshes, pre, image>>

\* line 59: remove the SIT cluster section
RemoveSitSection ==
    /\ pc = "remove_sit"
    /\ sections' = RemoveSection(sections, obj[loc.sit].key, obj[loc.sit].label)
    /\ pc' = "add_hit"
    /\ UNCHANGED <<obj, auto_refresh, parser, stash, saved, loc, idx, calls, outcome,
                   warnings, refreshes, pre, image>>

\* line 60: register the HIT cluster section
AddHitSection ==
    /\ pc = "add_hit"
    /\ sections' = AddSection(sections, obj[loc.hit].key, obj[loc.hit].label, loc.hit)
    /\ pc' = "add_queue"
    /\ UNCHANGED <<obj, auto_refresh, parser, stash, saved, loc, idx, calls, outcome,
                   warnings, refreshes, pre, image>>

\* lines 62-67: the default queue section
AddQueueSection ==
    /\ pc = "add_queue"
    /\ LET q == New("queue", "compute") IN
       /\ sections' = AddSection(sections, "queue", "compute", q)
       /\ obj' = SetParam(Alloc(obj, q, NewSection("queue", "compute", "QUEUE", QUEUE, loc.hit)),
                          loc.hit, "queue_settings", "compute")
       /\ loc' = [loc EXCEPT !.queue = q]
    /\ pc' = "copy_queue"
    /\ UNCHANGED <<auto_refresh, parser, stash, saved, idx, calls, outcome, warnings,
                   refreshes, pre, image>>

\* lines 69-79: the queue-level fields
QueueFields(sit) ==
    [compute_type |-> CopyParamValue(ParamValue(sit, "cluster_type"), NoneVal),
     enable_efa |-> CopyParamValue(ParamValue(sit, "enable_efa"),
                                   PyBool("compute" = ParamValue(sit, "enable_efa"))),
     placement_group |-> CopyParamValue(ParamValue(sit, "placement_group"), NoneVal)]

\* The parameters of a section with those of fields overwritten
WriteParams(sec, fields) ==
    [sec EXCEPT !.params = [k \in DOMAIN sec.params |->
                               IF k \in DOMAIN fields THEN fields[k] ELSE sec.params[k]]]

\* lines 69-79: the parameters looked up, in order, and the one each is copied to
QueueLookups == <<"cluster_type", "enable_efa", "placement_group">>
QueueTargets == <<"compute_type", "enable_efa", "placement_group">>

CopyQueueFields ==
    /\ pc = "copy_queue"
    /\ IF ~HasParams(obj[loc.sit], Range(QueueLookups))
       THEN RaiseAfter([obj EXCEPT ![loc.queue] =
                WriteParams(@, WrittenBefore(QueueFields(obj[loc.sit]), QueueTargets,
                                             FirstMissing(obj[loc.sit], QueueLookups)))])
       ELSE /\ obj' = [obj EXCEPT ![loc.queue] = WriteParams(@, QueueFields(obj[loc.sit]))]
            /\ pc' = "warn"
            /\ UNCHANGED <<sections, auto_refresh, parser, stash, saved, loc, idx, calls,
                           outcome, warnings, refreshes, pre, image>>

\* variant: the warning tested against the wrong placement
WarnsPlacement_Compute(sit) == ParamValue(sit, "placement") = "compute"

\* line 82: the test that decides the warning
WarnsPlacement(sit) == ParamValue(sit, "placement") = "cluster"

\* lines 81-86: the warning for the unsupported placement
WarnPlacement ==
    /\ pc = "warn"
    /\ IF ~HasParams(obj[loc.sit], {"placement"})
       THEN Raise
       ELSE /\ warnings' = IF WarnsPlacement(obj[loc.sit]) THEN warnings + 1 ELSE warnings
            /\ pc' = "add_cr"
            /\ UNCHANGED <<sections, obj, auto_refresh, parser, stash, saved, loc, idx,
                           calls, outcome, refreshes, pre, image>>

\* lines 88-96: the default compute resource section
AddComputeResourceSection ==
    /\ pc = "add_cr"
    /\ LET c == New("compute_resource", "default") IN
       /\ sections' = AddSection(sections, "compute_resource", "default", c)
       /\ obj' = SetParam(Alloc(obj, c, NewSection("compute_resource", "default",
                                                   "COMPUTE_RESOURCE", COMPUTE_RESOURCE,
                                                   loc.queue)),
                          loc.queue, "compute_resource_settings", "default")
       /\ loc' = [loc EXCEPT !.cr = c]
    /\ pc' = "copy_cr"
    /\ UNCHANGED <<auto_refresh, parser, stash, saved, idx, calls, outcome, warnings,
                   refreshes, pre, image>>

\* variant: the initial size always copied to min_count
SizeParamKey_MinCount(sit) == "min_count"

\* line 114: the target of the legacy initial size
SizeParamKey(sit) ==
    IF Truthy(ParamValue(sit, "maintain_initial_size")) THEN "min_count" ELSE "initial_count"

\* lines 98-117: the compute-resource-level fields
ComputeResourceFields(sit) ==
    LET size == CopyParamValue(ParamValue(sit, "initial_queue_size"), NoneVal) IN
    [k \in {"instance_type", "max_count", "spot_price", SizeParamKey(sit)} |->
        CASE k = "instance_type" -> CopyParamValue(ParamValue(sit, "compute_instance_type"), NoneVal)
          [] k = "max_count" -> CopyParamValue(ParamValue(sit, "max_queue_size"), NoneVal)
          [] k = "spot_price" -> CopyParamValue(ParamValue(sit, "spot_price"), NoneVal)
          [] OTHER -> size]

\* lines 98-117: the parameters looked up, in order; the first three are copied
\* at once, the size only after both of the last two were found
ComputeResourceLookups == <<"compute_instance_type", "max_queue_size", "spot_price",
                            "initial_queue_size", "maintain_initial_size">>
ComputeResourceTargets == <<"instance_type", "max_count", "spot_price">>

CopyComputeResourceFields ==
    /\ pc = "copy_cr"
    /\ IF ~HasParams(obj[loc.sit], Range(ComputeResourceLookups))
       THEN RaiseAfter([obj EXCEPT ![loc.cr] =
                WriteParams(@, WrittenBefore(ComputeResourceFields(obj[loc.sit]),
                                             ComputeResourceTargets,
                                             FirstMissing(obj[loc.sit], ComputeResourceLookups)))])
       ELSE /\ obj' = [obj EXCEPT ![loc.cr] = WriteParams(@, ComputeResourceFields(obj[loc.sit]))]
            /\ pc' = "copy_cluster"
            /\ UNCHANGED <<sections, auto_refresh, parser, stash, saved, loc, idx, calls,
                           outcome, warnings, refreshes, pre, image>>

\* variant: enable_efa not left out of the late copy
HitClusterParamKeys_All(hit) == DOMAIN hit.params

\* lines 120-122: the keys of the HIT cluster section the late copy may write
HitClusterParamKeys(hit) == DOMAIN hit.params \ {"enable_efa"}

\* lines 123-127: the cluster-level fields
ClusterFields(sit, hit) ==
    [k \in DOMAIN sit.params \cap HitClusterParamKeys(hit) |->
        CopyParamValue(ParamValue(sit, k), NoneVal)]

CopyClusterFields ==
    /\ pc = "copy_cluster"
    /\ obj' = [obj EXCEPT ![loc.hit] = WriteParams(@, ClusterFields(obj[loc.sit], obj[loc.hit]))]
    /\ idx' = 1
    /\ pc' = IF Len(stash) = 0 THEN "refresh" ELSE "restore"
    /\ UNCHANGED <<sections, auto_refresh, parser, stash, saved, loc, calls, outcome,
                   warnings, refreshes, pre, image>>

\* lines 163-165: the Store after the removal of the default of an always-present key
RemoveDefault(secs, key) ==
    IF key \in Range(ALWAYS_PRESENT_SECTIONS) THEN RemoveSection(secs, key, "default") ELSE secs

\* lines 167-169: the parent of a restored section
RestoredParent(sec, hit) ==
    IF sec.key \in Range(CLUSTER_SIT_NESTED_SECTIONS) THEN hit ELSE sec.parent

\* lines 162-172: one turn of the loop of _restore_original_sections
RestoreSection ==
    /\ pc = "restore"
    /\ idx <= Len(stash)
    /\ LET s == stash[idx] IN
       /\ obj' = [obj EXCEPT ![s].parent = RestoredParent(obj[s], loc.hit)]
       /\ sections' = AddSection(RemoveDefault(sections, obj[s].key),
                                 obj[s].key, obj[s].label, s)
    /\ idx' = idx + 1
    /\ pc' = IF idx = Len(stash) THEN "refresh" ELSE "restore"
    /\ UNCHANGED <<auto_refresh, parser, stash, saved, loc, calls, outcome, warnings,
                   refreshes, pre, image>>

\* Store.refresh(): derived values are recomputed; the values written
\* explicitly, the parents and the index stay
RefreshedHeap(heap) == heap

\* line 133: Store.refresh()
Refresh ==
    /\ pc = "refresh"
    /\ obj' = RefreshedHeap(obj)
    /\ refreshes' = refreshes + 1
    /\ pc' = "restore_flag"
    /\ UNCHANGED <<sections, auto_refresh, parser, stash, saved, loc, idx, calls,
                   outcome, warnings, pre, image>>

\* line 134: the saved auto_refresh is written back
RestoreAutoRefresh ==
    /\ pc = "restore_flag"
    /\ auto_refresh' = saved
    /\ pc' = "clean"
    /\ UNCHANGED <<sections, obj, parser, stash, saved, loc, idx, calls, outcome,
                   warnings, refreshes, pre, image>>

\* variant: the entry of the default label removed, whatever the cluster label
CleanedParser_DefaultLabel(prs, hit) ==
    IF prs.attached
    THEN [prs EXCEPT !.names = @ \ {FileSectionName("cluster", "default")}]
    ELSE prs

\* lines 182-184: clean_config_parser
CleanedParser(prs, hit) ==
    IF prs.attached
    THEN [prs EXCEPT !.names = @ \ {FileSectionName("cluster", hit.label)}]
    ELSE prs

\* lines 136-137: the parser is cleaned and convert() returns
CleanConfigParser ==
    /\ pc = "clean"
    /\ parser' = CleanedParser(parser, obj[loc.hit])
    /\ pc' = "idle"
    /\ outcome' = "converted"
    /\ UNCHANGED <<sections, obj, auto_refresh, stash, saved, loc, idx, calls, warnings,
                   refreshes, pre, image>>

\* lines 52, 63, 89: the construction of a section raises
ConstructionFailure ==
    /\ pc \in {"new_cluster", "add_queue", "add_cr"}
    /\ Raise

Next ==
    \/ ConvertEnter
    \/ ConstructionFailure
    \/ NewClusterSection
    \/ RemoveSitSection
    \/ AddHitSection
    \/ AddQueueSection
    \/ CopyQueueFields
    \/ WarnPlacement
    \/ AddComputeResourceSection
    \/ CopyComputeResourceFields
    \/ CopyClusterFields
    \/ RestoreSection
    \/ Refresh
    \/ RestoreAutoRefresh
    \/ CleanConfigParser

Spec == Init /\ [][Next]_vars

-----------------------------------------------------------------------------
(* Image operations: build_image and delete_image under convert_errors *)

ClientTokens == {NoneVal, "token"}
OptionalBools == {NoneVal, True, False}

\* What the image builder (validate_create_request, create) raises, if anything
Faults == {"none", "LimitExceededError", "LimitExceededImageError", "LimitExceededStackError",
           "LimitExceededImageBuilderActionError", "BadRequestError", "BadRequestImageError",
           "BadRequestStackError", "BadRequestImageBuilderActionError",
           "ConflictImageBuilderActionError", "Exception"}

ApiExceptions == {"BadRequestException", "BuildImageBadRequestException", "ConflictException",
                  "DryrunOperationException", "InternalServiceException",
                  "LimitExceededException", "NotFoundException"}

\* Python's  v or False
OrFalse(v) == IF Truthy(v) THEN v ELSE False

\* lines 140-141: disable_rollback = not (rollback_on_failure or False)
DisableRollback(rollback_on_failure) == PyBool(~Truthy(OrFalse(rollback_on_failure)))

\* lines 132-168: the body of build_image: what it raises, and the disable_rollback
\* handed to ImageBuilder.create ("n/a" when create is not called)
BuildImageBody(client_token, dryrun, rollback_on_failure, fault) ==
    IF Truthy(client_token)
    THEN [raised |-> "BuildImageBadRequestException", disable_rollback |-> "n/a"]
    ELSE IF Truthy(OrFalse(dryrun))
    THEN [raised |-> IF fault = "none" THEN "DryrunOperationException"
                     ELSE IF fault = "BadRequestImageBuilderActionError"
                     THEN "BuildImageBadRequestException" ELSE fault,
          disable_rollback |-> "n/a"]
    ELSE [raised |-> IF fault = "BadRequestImageBuilderActionError"
                     THEN "BuildImageBadRequestException" ELSE fault,
          disable_rollback |-> DisableRollback(rollback_on_failure)]

\* What the lookup of _get_underlying_image_or_stack finds
Lookups == {"image", "stack", "nothing"}

\* lines 189-207: the body of delete_image: what it raises
DeleteImageBody(client_token, lookup, fault) ==
    IF Truthy(client_token) THEN "BadRequestException"
    ELSE IF lookup = "nothing" THEN "NotFoundException"
    ELSE fault

\* variant: an API exception is not let through, it is taken for any other exception
ConvertErrors_NoPassThrough(raised) ==
    IF raised \in {"LimitExceededError", "LimitExceededImageError",
                   "LimitExceededStackError", "LimitExceededImageBuilderActionError"}
    THEN "LimitExceededException"
    ELSE IF raised \in {"BadRequestError", "BadRequestImageError", "BadRequestStackError",
                        "BadRequestImageBuilderActionError"}
    THEN "BadRequestException"
    ELSE IF raised = "ConflictImageBuilderActionError" THEN "ConflictException"
    ELSE "InternalServiceException"

\* lines 71-93: the error that leaves the wrapper for an exception raised inside
ConvertErrors(raised) ==
    IF raised \in ApiExceptions THEN raised
    ELSE IF raised \in {"LimitExceededError", "LimitExceededImageError",
                        "LimitExceededStackError", "LimitExceededImageBuilderActionError"}
    THEN "LimitExceededException"
    ELSE IF raised \in {"BadRequestError", "BadRequestImageError", "BadRequestStackError",
                        "BadRequestImageBuilderActionError"}
    THEN "BadRequestException"
    ELSE IF raised = "ConflictImageBuilderActionError" THEN "ConflictException"
    ELSE "InternalServiceException"

\* lines 70-94: the wrapper returns what the operation returns, or raises the
\* converted error of what it raises
Wrapper(raised, result) ==
    IF raised = "none" THEN [returned |-> result, error |-> "none"]
    ELSE [returned |-> "n/a", error |-> ConvertErrors(raised)]

\* lines 100-168: one build_image request
BuildImage ==
    \E client_token \in ClientTokens, dryrun \in OptionalBools,
       rollback_on_failure \in OptionalBools, fault \in Faults :
        LET body == BuildImageBody(client_token, dryrun, rollback_on_failure, fault) IN
        /\ image' = [served |-> TRUE, op |-> "build_image", client_token |-> client_token,
                     dryrun |-> dryrun,
                     rollback_on_failure |-> rollback_on_failure, fault |-> fault,
                     raised |-> body.raised,
                     disable_rollback |-> body.disable_rollback,
                     result |-> "BuildImageResponseContent",
                     returned |-> Wrapper(body.raised, "BuildImageResponseContent").returned,
                     error |-> Wrapper(body.raised, "BuildImageResponseContent").error]
        /\ UNCHANGED <<sections, obj, auto_refresh, parser, stash, pc, saved, loc, idx,
                       calls, outcome, warnings, refreshes, pre>>

\* lines 171-207: one delete_image request
DeleteImage ==
    \E client_token \in ClientTokens, lookup \in Lookups, fault \in Faults :
        LET raised == DeleteImageBody(client_token, lookup, fault) IN
        /\ image' = [served |-> TRUE, op |-> "delete_image", client_token |-> client_token,
                     lookup |-> lookup, fault |-> fault,
                     raised |-> raised,
                     result |-> "DeleteImageResponseContent",
                     returned |-> Wrapper(raised, "DeleteImageResponseContent").returned,
                     error |-> Wrapper(raised, "DeleteImageResponseContent").error]
        /\ UNCHANGED <<sections, obj, auto_refresh, parser, stash, pc, saved, loc, idx,
                       calls, outcome, warnings, refreshes, pre>>

\* The image operations do not touch the Store: one Store stands for all
InitImage ==
    /\ Init
    /\ auto_refresh /\ parser.attached
    /\ Len(sections) = 3
    /\ \E o \in DOMAIN obj :
          /\ obj[o].key = "cluster" /\ obj[o].label = "default"
          /\ obj[o].params = [scheduler |-> "slurm", key_name |-> "k1",
                              cluster_type |-> "ondemand", enable_efa |-> "compute",
                              placement_group |-> "pg1", placement |-> "compute",
                              compute_instance_type |-> "c5.xlarge", max_queue_size |-> "10",
                              spot_price |-> "0.5", initial_queue_size |-> "2",
                              maintain_initial_size |-> True]
    /\ \E i \in 1..Len(sections) : sections[i].key = "scaling" /\ sections[i].label = "default"

NextImage ==
    \/ BuildImage
    \/ DeleteImage

SpecImage == InitImage /\ [][NextImage]_vars

-----------------------------------------------------------------------------
(* Vocabulary of the properties *)

\* The section tree: the registered (key,label) pairs, each with the object
\* registered, its parent reference and its parameter values
Tree(secs, heap) ==
    [kl \in {<<secs[i].key, secs[i].label>> : i \in 1..Len(secs)} |->
        LET e == CHOOSE x \in Range(secs) : x.key = kl[1] /\ x.label = kl[2] IN
        [oid |-> e.oid, parent |-> heap[e.oid].parent, params |-> heap[e.oid].params]]

\* The last convert() call has returned with the given outcome
Returned(o) == pc = "idle" /\ calls > 0 /\ outcome = o

\* The cluster section the running/last call found, as it was when the call began
PreSitOid == GetSection(pre.sections, "cluster")
PreSit == pre.obj[PreSitOid]
Legacy == PreSit.params
PreModel == ClusterModel(pre.sections, pre.obj)

\* The sections of the result
TheCluster == obj[GetSection(sections, "cluster")]
TheQueue == obj[GetSection(sections, "queue")]
TheComputeResource == obj[GetSection(sections, "compute_resource")]

Now == Snapshot(sections, obj, auto_refresh, parser, stash, warnings, refreshes)

-----------------------------------------------------------------------------
(* C1: a convert() call on a Store whose model is not HIT and whose scheduler *)
(* is not "slurm" returns without error and leaves the section tree as it    *)
(* was: same (key,label) pairs, same objects, same parents, same values.     *)
C1_NoOpLeavesTree ==
    (pc = "idle" /\ calls > 0 /\ PreModel # "HIT" /\ Legacy["scheduler"] # "slurm")
        => /\ outcome = "not_required"
           /\ Tree(sections, obj) = Tree(pre.sections, pre.obj)

C1_Witness ==
    /\ Returned("not_required")
    /\ Legacy["scheduler"] = "torque"
    /\ Len(sections) >= 5

(* C2: after every convert() call that returns normally, auto_refresh has  *)
(* the value it had before the call, on all three paths.                   *)
C2_AutoRefreshRestored ==
    (pc = "idle" /\ outcome \in {"already_hit", "not_required", "converted"})
        => auto_refresh = pre.auto_refresh

(* C3: a completed conversion leaves a HIT Store, and a convert() call that *)
(* follows another is atomic and leaves the tree as the first call left it; *)
(* on a HIT Store it changes nothing at all: no stash, no flag change, no   *)
(* section added or removed, no parser edit, no warning, no refresh.        *)
C3_SecondCallNoOp ==
    /\ Returned("converted") => ClusterModel(sections, obj) = "HIT"
    /\ calls >= 2 =>
          /\ pc = "idle"
          /\ Tree(sections, obj) = Tree(pre.sections, pre.obj)
          /\ PreModel = "HIT" => (outcome = "already_hit" /\ Now = pre)

C3_Witness ==
    /\ calls = 2
    /\ Returned("already_hit")
    /\ Len(GetSections(sections, "queue")) = 1

(* C4: after a conversion the Store holds exactly one cluster section, with *)
(* the legacy label and the HIT schema, exactly one queue section, labelled *)
(* "compute" and owned by that cluster section, and exactly one compute     *)
(* resource section, labelled "default" and owned by that queue section;    *)
(* queue_settings is "compute" and compute_resource_settings is "default".  *)
C4_StructuralResult ==
    Returned("converted") =>
        LET clusters == GetSections(sections, "cluster")
            queues == GetSections(sections, "queue")
            crs == GetSections(sections, "compute_resource")
        IN /\ Len(clusters) = 1 /\ Len(queues) = 1 /\ Len(crs) = 1
           /\ clusters[1].label = PreSit.label
           /\ obj[clusters[1].oid].label = PreSit.label
           /\ obj[clusters[1].oid].schema = "HIT"
           /\ clusters[1].oid # PreSitOid
           /\ queues[1].label = "compute"
           /\ obj[queues[1].oid].parent = clusters[1].oid
           /\ crs[1].label = "default"
           /\ obj[crs[1].oid].parent = queues[1].oid
           /\ obj[clusters[1].oid].params["queue_settings"] = "compute"
           /\ obj[queues[1].oid].params["compute_resource_settings"] = "default"

C4_Witness ==
    /\ Returned("converted")
    /\ PreSit.label = "mycluster"
    /\ TheCluster.label = "mycluster"

(* C5: after a conversion the queue holds the legacy cluster_type and       *)
(* placement_group, its enable_efa is the boolean (legacy enable_efa =      *)
(* "compute"), and the compute resource holds the legacy instance type,     *)
(* maximum size and spot price.                                             *)
C5_FieldMapping ==
    Returned("converted") =>
        /\ TheQueue.params["compute_type"] = Legacy["cluster_type"]
        /\ TheQueue.params["placement_group"] = Legacy["placement_group"]
        /\ TheQueue.params["enable_efa"] = PyBool(Legacy["enable_efa"] = "compute")
        /\ TheQueue.params["enable_efa"] \in {True, False}
        /\ TheComputeResource.params["instance_type"] = Legacy["compute_instance_type"]
        /\ TheComputeResource.params["max_count"] = Legacy["max_queue_size"]
        /\ TheComputeResource.params["spot_price"] = Legacy["spot_price"]

C5_Witness ==
    /\ Returned("converted")
    /\ Legacy["enable_efa"] = "master"
    /\ TheQueue.params["enable_efa"] = False
    /\ TheQueue.params["compute_type"] = "spot"

(* C6: after a conversion exactly one of min_count and initial_count holds  *)
(* the legacy initial_queue_size: min_count when maintain_initial_size is   *)
(* truthy, initial_count otherwise; the other one is never written.         *)
C6_SizeTarget ==
    Returned("converted") =>
        IF Truthy(Legacy["maintain_initial_size"])
        THEN /\ TheComputeResource.params["min_count"] = Legacy["initial_queue_size"]
             /\ TheComputeResource.params["initial_count"] = Default
        ELSE /\ TheComputeResource.params["initial_count"] = Legacy["initial_queue_size"]
             /\ TheComputeResource.params["min_count"] = Default

C6_Witness ==
    /\ Returned("converted")
    /\ Legacy["maintain_initial_size"] = False
    /\ TheComputeResource.params["initial_count"] = "2"
    /\ TheComputeResource.params["min_count"] = Default

(* C7: after a conversion every section that was registered under a        *)
(* cluster-nested key is registered under the same (key,label) and its      *)
(* parent is the new HIT cluster section; a stashed section of a global key *)
(* keeps the parent it had.                                                 *)
C7_Reparenting ==
    Returned("converted") =>
        \A i \in 1..Len(pre.sections) :
            LET e == pre.sections[i] IN
            /\ e.key \in Range(CLUSTER_SIT_NESTED_SECTIONS) =>
                  /\ \E j \in 1..Len(sections) : sections[j] = e
                  /\ obj[e.oid].parent = GetSection(sections, "cluster")
                  /\ obj[e.oid].parent # PreSitOid
            /\ e.key \in Range(GLOBAL_SECTIONS) =>
                  obj[e.oid].parent = pre.obj[e.oid].parent

(* C8: a conversion removes the parser entry named after the cluster        *)
(* section, and nothing else, as its last step: after the refresh and after *)
(* auto_refresh is written back; without a parser nothing happens; a call   *)
(* that converts nothing leaves the parser alone.                           *)
C8_ParserCleanup ==
    /\ pc # "idle" => parser = pre.parser
    /\ pc = "clean" => (refreshes = pre.refreshes + 1 /\ auto_refresh = saved)
    /\ Returned("converted") =>
          /\ parser.attached = pre.parser.attached
          /\ parser.names = pre.parser.names \ {FileSectionName("cluster", PreSit.label)}
    /\ (Returned("already_hit") \/ Returned("not_required")) => parser = pre.parser

C8_Witness ==
    /\ Returned("converted")
    /\ pre.parser.attached
    /\ PreSit.label = "mycluster"
    /\ FileSectionName("cluster", "mycluster") \in pre.parser.names
    /\ FileSectionName("cluster", "mycluster") \notin parser.names

(* C9: the step that tests the legacy placement logs exactly one warning    *)
(* when it is "cluster" and none otherwise, changes nothing else and goes   *)
(* on to the next step of the conversion; no other step logs a warning.     *)
C9_WarningStep ==
    /\ (pc = "warn" /\ HasParams(obj[loc.sit], {"placement"})) =>
          /\ pc' = "add_cr"
          /\ UNCHANGED <<sections, obj, auto_refresh, parser, stash, saved, loc>>
          /\ warnings' = warnings + (IF ParamValue(obj[loc.sit], "placement") = "cluster"
                                      THEN 1 ELSE 0)
    /\ (pc # "warn" \/ ~HasParams(obj[loc.sit], {"placement"})) => warnings' = warnings

(* C9: every step of every behaviour is a step as C9_WarningStep describes *)
C9_WarningEmission == [][C9_WarningStep]_vars

C9_Witness ==
    /\ Returned("converted")
    /\ Legacy["placement"] = "cluster"
    /\ warnings = pre.warnings + 1

(* C10: a build_image request without client_token and without dryrun       *)
(* disables the rollback only when the caller passed rollback_on_failure =  *)
(* false; without rollback_on_failure the rollback stays enabled.           *)
C10_RollbackDefault ==
    (image.served /\ image.op = "build_image"
        /\ ~Truthy(image.client_token) /\ ~Truthy(image.dryrun))
        => (image.disable_rollback = True <=> image.rollback_on_failure = False)

-----------------------------------------------------------------------------
(* C11: after a conversion every section stashed by the call (every section *)
(* that was registered under a cluster-nested or global key) is registered  *)
(* under its (key,label), as the same object with the parameter values it   *)
(* had, whatever the stash holds.                                           *)
C11_RestoreComplete ==
    Returned("converted") =>
        \A i \in 1..Len(pre.sections) :
            LET e == pre.sections[i] IN
            e.key \in Range(CLUSTER_SIT_NESTED_SECTIONS \o GLOBAL_SECTIONS) =>
                /\ e.oid \in Range(stash)
                /\ Registered(sections, e.key, e.label)
                /\ Tree(sections, obj)[<<e.key, e.label>>].oid = e.oid
                /\ obj[e.oid].params = pre.obj[e.oid].params

-----------------------------------------------------------------------------
\* The result of the late copy, as far as the new cluster section goes
C12_ClusterSection ==
    /\ \A k \in (DOMAIN Legacy \cap DOMAIN TheCluster.params) \ {"enable_efa"} :
          TheCluster.params[k] = Legacy[k]
    /\ TheCluster.params["enable_efa"] = Default
    /\ TheCluster.params["queue_settings"] = "compute"

\* The late copy writes the new cluster section only, and not its queue_settings
C12_LateCopyStep ==
    pc = "copy_cluster" =>
        /\ sections' = sections
        /\ \A o \in DOMAIN obj : o # loc.hit => obj'[o] = obj[o]
        /\ obj'[loc.hit].params["queue_settings"] = obj[loc.hit].params["queue_settings"]

C12_Result ==
    Returned("converted") =>
        /\ C12_ClusterSection
        /\ DOMAIN TheCluster.params = CLUSTER_HIT
        /\ \A k \in DOMAIN Legacy \ CLUSTER_HIT : k \notin DOMAIN TheCluster.params

-----------------------------------------------------------------------------
\* The positions of a conversion from the suspension of auto_refresh up to the
\* write-back of the saved flag
C13_Suspended == {"new_cluster", "remove_sit", "add_hit", "add_queue", "copy_queue", "warn",
                  "add_cr", "copy_cr", "copy_cluster", "restore", "refresh", "restore_flag"}

\* The positions before the loop of the restore
C13_BeforeRestore == C13_Suspended \ {"restore", "refresh", "restore_flag"}

\* The part of the ordering a state decides
C13_OrderingState ==
    /\ pc \in C13_Suspended => ~auto_refresh
    /\ Len(GetSections(sections, "cluster")) <= 1
    /\ pc \in {"new_cluster", "remove_sit"} => GetSection(sections, "cluster") = loc.sit
    /\ pc = "add_hit" => GetSection(sections, "cluster") = Null
    /\ pc \in (C13_Suspended \ {"new_cluster", "remove_sit", "add_hit"}) =>
          GetSection(sections, "cluster") = loc.hit
    /\ pc \in C13_BeforeRestore =>
          \A i \in 1..Len(stash) : obj[stash[i]].parent = pre.obj[stash[i]].parent
    /\ pc \in (C13_Suspended \ {"restore_flag"}) => refreshes = pre.refreshes
    /\ pc = "refresh" => idx = Len(stash) + 1
    /\ (pc \in {"restore_flag", "clean"} \/ Returned("converted")) =>
          refreshes = pre.refreshes + 1

\* The part of the ordering a step decides: a turn of the restore registers
\* the next stashed section, and refresh() is the step at "refresh" only
C13_OrderingStep ==
    /\ pc = "restore" =>
          /\ idx' = idx + 1
          /\ \E i \in 1..Len(sections') :
                sections'[i] = Entry(obj[stash[idx]].key, obj[stash[idx]].label, stash[idx])
          /\ GetSection(sections', "cluster") = loc.hit
    /\ refreshes' # refreshes => (pc = "refresh" /\ refreshes' = refreshes + 1)
    /\ (\E i \in 1..Len(stash) :
            \/ obj'[stash[i]].parent # obj[stash[i]].parent
            \/ \E j \in 1..Len(sections') :
                  sections'[j].oid = stash[i] /\ sections'[j] \notin Range(sections)) =>
          (pc = "restore" /\ GetSection(sections, "cluster") = loc.hit)

(* C13: in a conversion auto_refresh is false from before the removal of    *)
(* the legacy cluster section until after refresh(); the legacy cluster     *)
(* section is removed before the new one is registered, so the Store never  *)
(* holds both; the new cluster section is registered before any stashed     *)
(* section is re-parented or re-registered; refresh() is called once, after *)
(* the restore has re-registered every stashed section.                     *)
C13_Ordering == []C13_OrderingState /\ [][C13_OrderingStep]_vars

C13_Witness ==
    /\ Returned("converted")
    /\ pre.auto_refresh /\ auto_refresh
    /\ Len(stash) >= 2
    /\ refreshes = pre.refreshes + 1
    /\ GetSection(sections, "cluster") = loc.hit
    /\ \A i \in 1..Len(stash) :
          obj[stash[i]].key \in Range(CLUSTER_SIT_NESTED_SECTIONS) =>
              obj[stash[i]].parent = loc.hit

-----------------------------------------------------------------------------
\* The steps of a conversion that construct a section or look a parameter up
C14_FailingSteps == {"new_cluster", "add_queue", "copy_queue", "warn", "add_cr", "copy_cr"}

\* The Store that a failed conversion leaves
C14_FailedState ==
    outcome = "error" =>
        /\ pc = "idle"
        /\ ~auto_refresh
        /\ saved = pre.auto_refresh
        /\ refreshes = pre.refreshes
        /\ parser = pre.parser
        /\ \A i \in 1..Len(stash) : obj[stash[i]].parent = pre.obj[stash[i]].parent
        /\ TheCluster.schema = "HIT" => GetSection(sections, "cluster") = loc.hit
        /\ loc.queue # Null =>
              /\ GetSection(sections, "cluster") = loc.hit
              /\ GetSection(sections, "queue") = loc.queue
              /\ \A i \in 1..Len(sections) : sections[i].oid # loc.sit
        /\ loc.cr # Null => GetSection(sections, "compute_resource") = loc.cr

\* The step that fails keeps what the steps before it did; the parameters
\* copied before the failing lookup stay written; no step follows
C14_FailingStep ==
    /\ (outcome' = "error" /\ outcome # "error") =>
          /\ pc \in C14_FailingSteps
          /\ pc' = "idle"
          /\ UNCHANGED <<sections, auto_refresh, parser, stash, saved, loc, warnings,
                         refreshes>>
          /\ DOMAIN obj' = DOMAIN obj
          /\ \A o \in DOMAIN obj :
                /\ obj'[o].parent = obj[o].parent
                /\ DOMAIN obj'[o].params = DOMAIN obj[o].params
                /\ \A k \in DOMAIN obj[o].params :
                      obj'[o].params[k] # obj[o].params[k] =>
                          \/ /\ pc = "copy_queue" /\ o = loc.queue
                             /\ \E i \in 1..Len(QueueTargets) :
                                   /\ k = QueueTargets[i]
                                   /\ i < FirstMissing(obj[loc.sit], QueueLookups)
                          \/ /\ pc = "copy_cr" /\ o = loc.cr
                             /\ \E i \in 1..Len(ComputeResourceTargets) :
                                   /\ k = ComputeResourceTargets[i]
                                   /\ i < FirstMissing(obj[loc.sit], ComputeResourceLookups)
    /\ outcome = "error" =>
          UNCHANGED <<sections, obj, auto_refresh, parser, stash, pc, saved, loc, idx,
                      calls, outcome, warnings, refreshes>>

(* C14: when a section construction or a parameter lookup fails in a        *)
(* conversion, convert() ends with the error and no later step runs: no     *)
(* section is added or removed, no stashed section restored, no refresh(),  *)
(* no parser cleanup; what the steps before the failure did is not undone,  *)
(* and auto_refresh stays cleared.                                          *)
C14_FailureSemantics == []C14_FailedState /\ [][C14_FailingStep]_vars

C14_Witness ==
    /\ outcome = "error" /\ pc = "idle"
    /\ pre.auto_refresh /\ ~auto_refresh
    /\ "maintain_initial_size" \notin DOMAIN Legacy
    /\ GetSection(sections, "cluster") = loc.hit
    /\ loc.cr # Null
    /\ obj[loc.cr].params["instance_type"] = Legacy["compute_instance_type"]
    /\ obj[loc.cr].params["spot_price"] = Legacy["spot_price"]
    /\ refreshes = pre.refreshes

-----------------------------------------------------------------------------
\* The errors of the image builder, by the rule of the wrapper that takes them
C15_LimitExceeded == {"LimitExceededError", "LimitExceededImageError",
                      "LimitExceededStackError", "LimitExceededImageBuilderActionError"}
C15_BadRequest == {"BadRequestError", "BadRequestImageError", "BadRequestStackError",
                   "BadRequestImageBuilderActionError"}
C15_Conflict == {"ConflictImageBuilderActionError"}

\* The first rule of the wrapper that matches what the operation raised
C15_FirstMatch ==
    IF image.raised \in ApiExceptions THEN image.raised
    ELSE IF image.raised \in C15_LimitExceeded THEN "LimitExceededException"
    ELSE IF image.raised \in C15_BadRequest THEN "BadRequestException"
    ELSE IF image.raised \in C15_Conflict THEN "ConflictException"
    ELSE "InternalServiceException"

\* The API exceptions the operations raise themselves reach the caller as they are
C15_RaisedInside ==
    /\ Truthy(image.client_token) =>
          image.error = IF image.op = "build_image" THEN "BuildImageBadRequestException"
                        ELSE "BadRequestException"
    /\ (image.op = "build_image" /\ ~Truthy(image.client_token)) =>
          /\ (image.dryrun = True /\ image.fault = "none") =>
                image.error = "DryrunOperationException"
          /\ image.fault = "BadRequestImageBuilderActionError" =>
                image.error = "BuildImageBadRequestException"
          /\ (image.dryrun # True /\ image.fault = "none") => image.error = "none"
    /\ (image.op = "delete_image" /\ ~Truthy(image.client_token)) =>
          /\ image.lookup = "nothing" => image.error = "NotFoundException"
          /\ (image.lookup # "nothing" /\ image.fault = "BadRequestImageBuilderActionError") =>
                image.error = "BadRequestException"
          /\ (image.lookup # "nothing" /\ image.fault = "none") => image.error = "none"

(* C15: a wrapped image operation that returns has its result returned      *)
(* unchanged; one that raises has exactly one error leave the wrapper,      *)
(* always an API exception, by the first matching rule: an API exception    *)
(* (BuildImageBadRequestException and DryrunOperationException of           *)
(* build_image included) passes unchanged, a limit-exceeded error becomes   *)
(* LimitExceededException, a bad-request error BadRequestException, a       *)
(* conflict error ConflictException, any other InternalServiceException.    *)
C15_ErrorConversion ==
    image.served =>
        /\ image.raised = "none" =>
              (image.error = "none" /\ image.returned = image.result)
        /\ image.raised # "none" =>
              /\ image.returned = "n/a"
              /\ image.error \in ApiExceptions
              /\ image.error = C15_FirstMatch
        /\ C15_RaisedInside

C15_Witness ==
    /\ image.served /\ image.op = "build_image"
    /\ ~Truthy(image.client_token)
    /\ image.dryrun = True /\ image.fault = "none"
    /\ image.raised = "DryrunOperationException"
    /\ image.error = "DryrunOperationException"
    /\ image.returned = "n/a"

====
